---- MODULE Spec2Model ----
(***************************************************************************)
(* A model of the YouTube-downloader HTTP facade: the per-IP sliding-window *)
(* rate limiter (src/app.py rate_limit), the handlers it wraps             *)
(* (get_video_info, download_video), the downloads-directory handlers      *)
(* (list_downloads, download_file, delete_file, clear_downloads) and the   *)
(* retry wrapper (src/utils.py retry_with_backoff).                        *)
(*                                                                         *)
(* Time is in whole seconds.  A request is handled to its response before  *)
(* the next one arrives (gunicorn's sync worker, src/gunicorn.conf.py).    *)
(***************************************************************************)
EXTENDS Integers, Sequences, FiniteSets, TLC

VARIABLES
    now,                 \* time.time(), in seconds
    rate_limit_storage,  \* client ip -> deque of admitted timestamps
    temp_dirs,           \* the temporary directories that exist on disk
    resp,                \* the response of the request being answered
    files,               \* the entries of DOWNLOADS_DIR, in os.listdir order
    retry,               \* one run of a retry_with_backoff wrapper
    audit,               \* watched client ip -> its admitted requests, each
                         \* with its endpoint, of the trailing WINDOW seconds
    threads              \* server thread -> the request it is handling and
                         \* its position in rate_limit's decorated_function

vars == <<now, rate_limit_storage, temp_dirs, resp, files, retry, audit, threads>>

----------------------------------------------------------------------------
(* Program constants *)

WINDOW == 60
VIDEO_INFO_LIMIT == 5
DOWNLOAD_LIMIT == 3
DESCRIPTION_CUT == 500
VIDEO_STREAMS_CUT == 15
AUDIO_STREAMS_CUT == 8
LIST_CUT == 20
INFO_MAX_RETRIES == 3
INFO_BASE_DELAY == 2

(* Bounds of the model *)

MaxEpochs == 1        \* the clock visits 0 and k*WINDOW, k*WINDOW+1 for k in 1..MaxEpochs
MaxTempDirs == 1      \* temporary directories that can exist at once
MaxChunks == 2        \* chunks of 4096 bytes in a produced file
JitterScale == 2      \* delays are counted in units of 1/JitterScale second
MaxRetries == 4       \* largest max_retries a wrapper is built with
MaxBaseDelay == 4     \* largest base_delay, in units of 1/JitterScale second
MaxFailures == 5      \* the operation fails at most this many times in a row
MaxFormats == 17      \* formats in one metadata result
MaxExtra == 4         \* characters of a description beyond the cut
MaxStored == 2        \* entries of DOWNLOADS_DIR while files are fetched and deleted
MaxFiles == 22        \* entries of DOWNLOADS_DIR when it is listed
MtimeMod == 5         \* modification times are 0..MtimeMod-1

IPs == {"ip1", "ip2"}
Methods == {"POST", "OPTIONS"}

TimePoints == {0} \cup {k * WINDOW + d : k \in 1..MaxEpochs, d \in 0..1}

None == "None"
NoResp == [status |-> 0]

----------------------------------------------------------------------------
(* The rate limiter: src/app.py rate_limit *)

RECURSIVE PopOldInclusive(_, _)
\* PopOld with <= for <: a request exactly WINDOW seconds old is dropped too
PopOldInclusive(q, minute_ago) ==
    IF q # <<>> /\ Head(q) <= minute_ago
    THEN PopOldInclusive(Tail(q), minute_ago)
    ELSE q

RECURSIVE PopOld(_, _)
\* while q and q[0] < minute_ago: q.popleft()
PopOld(q, minute_ago) ==
    IF q # <<>> /\ Head(q) < minute_ago
    THEN PopOld(Tail(q), minute_ago)
    ELSE q

\* if len(q) >= limit: reject
Exceeded(q, limit) == Len(q) >= limit

\* the key of the window a request is counted in
WindowKey(ip, endpoint) == ip

\* A limiter that counts every call, rejected ones included.
rate_limit_counting(ip, endpoint, limit) ==
    LET key == WindowKey(ip, endpoint)
        q == PopOld(rate_limit_storage[key], now - WINDOW)
    IN [admitted |-> ~Exceeded(q, limit),
        storage |-> [rate_limit_storage EXCEPT ![key] = Append(q, now)]]

\* The decorator up to the call of the wrapped handler: the window after the
\* request, and whether the handler is called.
rate_limit(ip, endpoint, limit) ==
    LET key == WindowKey(ip, endpoint)
        q == PopOld(rate_limit_storage[key], now - WINDOW)
        full == Exceeded(q, limit)
    IN [admitted |-> ~full,
        storage |-> [rate_limit_storage EXCEPT
                        ![key] = IF full THEN q ELSE Append(q, now)]]

\* What an observer of the watched clients keeps: the admitted requests of
\* the trailing WINDOW seconds, with the endpoint each was for.
RECURSIVE Recent(_)
Recent(log) ==
    IF log # <<>> /\ now - Head(log).at > WINDOW THEN Recent(Tail(log)) ELSE log

Audited(ip, endpoint, admitted) ==
    [c \in DOMAIN audit |->
        IF c = ip /\ admitted
        THEN Append(Recent(audit[c]), [at |-> now, endpoint |-> endpoint])
        ELSE audit[c]]

----------------------------------------------------------------------------
(* The retry wrapper: src/utils.py retry_with_backoff *)

RECURSIVE Pow2(_)
Pow2(n) == IF n = 0 THEN 1 ELSE 2 * Pow2(n - 1)

\* Delay without the exponential factor
DelayFlat(base_delay, attempt, jitter) == base_delay + jitter

\* delay = base_delay * (2 ** attempt) + random.uniform(0, 1)
Delay(base_delay, attempt, jitter) == base_delay * Pow2(attempt) + jitter

\* The n-th call of the wrapped operation: the operation fails `failures` times
\* in a row and then succeeds; each call raises its own error or returns its
\* own value.
Call(n, failures) ==
    IF n <= failures THEN [ok |-> FALSE, what |-> <<"error", n>>]
                     ELSE [ok |-> TRUE, what |-> <<"value", n>>]

\* LastAttempt off by one: the last error is not raised from the loop
LastAttemptLate(attempt, max_retries) == attempt = max_retries

\* if attempt == max_retries - 1: raise e
LastAttempt(attempt, max_retries) == attempt = max_retries - 1

RECURSIVE RetryLoop(_, _, _, _, _, _)
\* for attempt in range(max_retries): try: return func() except: ...
\* and, after the loop, return func()
RetryLoop(attempt, delays, max_retries, base_delay, failures, jitters) ==
    LET calls == attempt + 1
        r == Call(calls, failures)
    IN IF attempt >= max_retries
       THEN [outcome |-> IF r.ok THEN "return" ELSE "raise", what |-> r.what,
             calls |-> calls, delays |-> delays]
       ELSE IF r.ok
       THEN [outcome |-> "return", what |-> r.what,
             calls |-> calls, delays |-> delays]
       ELSE IF LastAttempt(attempt, max_retries)
       THEN [outcome |-> "raise", what |-> r.what,
             calls |-> calls, delays |-> delays]
       ELSE RetryLoop(attempt + 1,
                      Append(delays, Delay(base_delay, attempt, jitters[attempt])),
                      max_retries, base_delay, failures, jitters)

retry_with_backoff(max_retries, base_delay, failures, jitters) ==
    RetryLoop(0, <<>>, max_retries, base_delay, failures, jitters)

Jitters == [0..MaxRetries -> 0..JitterScale]

RetryIdle == [pc |-> "idle"]

\* The inputs of one run: the wrapper's parameters and the operation.
InitRetry ==
    /\ now = 0 /\ rate_limit_storage = [ip \in IPs |-> <<>>] /\ temp_dirs = {}
    /\ resp = NoResp /\ files = <<>> /\ audit = <<>> /\ threads = <<>>
    /\ retry \in [pc : {"ready"}, max_retries : 0..MaxRetries,
                  base_delay : 0..MaxBaseDelay, failures : 0..MaxFailures]

\* One call of the wrapper.
RunRetry ==
    /\ retry.pc = "ready"
    /\ \E jitters \in Jitters :
         retry' = [pc |-> "done", max_retries |-> retry.max_retries,
                   base_delay |-> retry.base_delay, failures |-> retry.failures,
                   result |-> retry_with_backoff(retry.max_retries, retry.base_delay,
                                                 retry.failures, jitters)]
    /\ UNCHANGED <<now, rate_limit_storage, temp_dirs, resp, files, audit, threads>>

NextRetry == RunRetry

SpecRetry == InitRetry /\ [][NextRetry]_vars

----------------------------------------------------------------------------
(* Request bodies and the extraction library's results *)

\* What request.get_json() and data.get('url') make of a request body:
\*   no_body     no JSON body at all: get_json() raises, or returns None
\*   not_object  JSON that is no object (null, a list): data.get raises
\*   no_url      an object without 'url'
\*   empty_url   an object whose 'url' is ''
\*   url         an object with a non-empty 'url'
Bodies == {"no_body", "not_object", "no_url", "empty_url", "url"}

\* data = request.get_json(); url = data.get('url') raises
BodyRaises(body) == body \in {"no_body", "not_object"}

\* if not url
UrlMissing(body) == body \in {"no_url", "empty_url"}

\* The kinds of format the library reports (a height of 0 stands for a
\* missing or None height, a codec of None for a missing codec).
FormatKinds ==
    << [vcodec |-> "avc1", acodec |-> "none", height |-> 720],
       [vcodec |-> "none", acodec |-> "mp4a", height |-> 0],
       [vcodec |-> "avc1", acodec |-> "mp4a", height |-> 360],
       [vcodec |-> "none", acodec |-> "none", height |-> 0],
       [vcodec |-> None,   acodec |-> None,   height |-> 0] >>

\* n formats, the i-th of kind (a*i + b) mod 5, with format_id i.
Formats(n, a, b) ==
    [i \in 1..n |-> [format_id |-> i] @@ FormatKinds[((a * i + b) % 5) + 1]]

Text(n) == [i \in 1..n |-> i % 10]

Ellipsis == <<".", ".", ".">>

\* fmt.get('vcodec') != 'none' and fmt.get('height')
IsVideo(fmt) == fmt.vcodec # "none" /\ fmt.height # 0

\* fmt.get('acodec') != 'none' and fmt.get('vcodec') == 'none'
IsAudio(fmt) == fmt.acodec # "none" /\ fmt.vcodec = "none"

RECURSIVE Select(_, _)
Select(fmts, kind) ==
    IF fmts = <<>> THEN <<>>
    ELSE LET keep == IF kind = "video" THEN IsVideo(Head(fmts))
                                       ELSE IsAudio(Head(fmts))
         IN (IF keep THEN <<Head(fmts).format_id>> ELSE <<>>)
            \o Select(Tail(fmts), kind)

\* s[:n]
Slice(s, n) == SubSeq(s, 1, IF Len(s) < n THEN Len(s) ELSE n)

\* Description without the cut
DescriptionWhole(d) == d

\* (d[:500] + '...') if len(d) > 500 else d
Description(d) ==
    IF Len(d) > DESCRIPTION_CUT THEN Slice(d, DESCRIPTION_CUT) \o Ellipsis ELSE d

\* len(info.get('description', '')) raises when the library gives None
DescriptionRaises(info) == ~info.has_description

\* video_streams[:15]
VideoStreams(fmts) == Slice(Select(fmts, "video"), VIDEO_STREAMS_CUT)

\* audio_streams[:8]
AudioStreams(fmts) == Slice(Select(fmts, "audio"), AUDIO_STREAMS_CUT)

\* A response, with what it answers: the request's client, endpoint, method and
\* body, the client's window as the limiter found it, the number of calls of the
\* extraction library and the temporary directory made for the request (0: none).
Response(ip, endpoint, method, body, status, payload, extractions) ==
    [status |-> status, ip |-> ip, endpoint |-> endpoint, method |-> method,
     body |-> body, payload |-> payload, extractions |-> extractions,
     window |-> rate_limit_storage[WindowKey(ip, endpoint)],
     temp_dir |-> 0, phase |-> "done"]

----------------------------------------------------------------------------
(* POST/OPTIONS /api/video-info: src/app.py get_video_info *)

\* The handler, once the limiter has admitted the request.  `failures` is how
\* often extract_info fails in a row, `info` what it returns when it succeeds.
VideoInfoView(ip, method, body, failures, info, jitters) ==
    LET R(status, payload, n) ==
            Response(ip, "video-info", method, body, status, payload, n)
        run == retry_with_backoff(INFO_MAX_RETRIES, INFO_BASE_DELAY * JitterScale,
                                  failures, jitters)
    IN IF method = "OPTIONS" THEN R(200, "", 0)
       ELSE IF BodyRaises(body) THEN R(500, "error", 0)
       ELSE IF UrlMissing(body) THEN R(400, "error", 0)
       ELSE IF run.outcome = "raise" THEN R(500, "error", run.calls)
       ELSE IF DescriptionRaises(info) THEN R(500, "error", run.calls)
       ELSE R(200, [description |-> Description(info.description),
                    video_streams |-> VideoStreams(info.formats),
                    audio_streams |-> AudioStreams(info.formats)],
              run.calls)

get_video_info(ip, method, body, failures, info) ==
    LET rl == rate_limit(ip, "video-info", VIDEO_INFO_LIMIT)
    IN /\ resp = NoResp
       /\ rate_limit_storage' = rl.storage
       /\ \E jitters \in {[a \in 0..MaxRetries |-> j] : j \in 0..JitterScale} :
            resp' = IF rl.admitted
                    THEN VideoInfoView(ip, method, body, failures, info, jitters)
                    ELSE Response(ip, "video-info", method, body, 429, "error", 0)
       /\ audit' = Audited(ip, "video-info", rl.admitted)
       /\ UNCHANGED <<now, temp_dirs, files, retry, threads>>

----------------------------------------------------------------------------
(* POST/OPTIONS /api/download: src/app.py download_video *)

\* What the library and the file system do for one download:
\*   extract_error   ydl.extract_info raises
\*   download_error  ydl.download raises
\*   no_file         the download leaves no file in the temporary directory
\*   ok              a file of some chunks is produced
Outcomes == {"extract_error", "download_error", "no_file", "ok"}

\* tempfile.mkdtemp(): a directory that does not exist yet
FreeTempDirs == (1..MaxTempDirs) \ temp_dirs

\* Whether the request reaches tempfile.mkdtemp().
ReachesMkdtemp(method, body) ==
    method = "POST" /\ ~BodyRaises(body) /\ ~UrlMissing(body)

\* The handler, once the limiter has admitted the request, with the temporary
\* directory `dir` mkdtemp returns (used only when the handler gets that far).
DownloadView(ip, method, body, outcome, chunks, dir) ==
    LET R(status, payload, n) ==
            Response(ip, "download", method, body, status, payload, n)
    IN IF method = "OPTIONS" THEN R(200, "", 0)
       ELSE IF BodyRaises(body) THEN R(500, "error", 0)
       ELSE IF UrlMissing(body) THEN R(400, "error", 0)
       ELSE IF outcome = "extract_error"
       THEN [R(500, "error", 1) EXCEPT !.temp_dir = dir]
       ELSE IF outcome = "download_error"
       THEN [R(500, "error", 2) EXCEPT !.temp_dir = dir]
       ELSE IF outcome = "no_file"
       THEN [R(500, "error", 2) EXCEPT !.temp_dir = dir]
       ELSE [R(200, <<>>, 2) EXCEPT !.temp_dir = dir, !.phase = "streaming"]
               @@ [chunks_left |-> chunks, failed |-> FALSE, started |-> FALSE,
                   cleaned |-> FALSE, closed |-> FALSE]

download_video(ip, method, body, outcome, chunks) ==
    LET rl == rate_limit(ip, "download", DOWNLOAD_LIMIT)
        makes == rl.admitted /\ ReachesMkdtemp(method, body)
    IN /\ resp = NoResp
       /\ rate_limit_storage' = rl.storage
       /\ IF makes
          THEN \E dir \in FreeTempDirs :
                 /\ temp_dirs' = temp_dirs \cup {dir}
                 /\ resp' = DownloadView(ip, method, body, outcome, chunks, dir)
          ELSE /\ temp_dirs' = temp_dirs
               /\ resp' = IF rl.admitted
                          THEN DownloadView(ip, method, body, outcome, chunks, 0)
                          ELSE Response(ip, "download", method, body, 429, "error", 0)
       /\ audit' = Audited(ip, "download", rl.admitted)
       /\ UNCHANGED <<now, files, retry, threads>>

\* shutil.rmtree(temp_dir) inside try/except: pass
Rmtree(dirs, dir, works) == IF works THEN dirs \ {dir} ELSE dirs

\* One step of the response generator of download_video: f.read(4096) gives a
\* chunk, which is yielded; at the end of the file, or when the read raises,
\* the finally clause removes the temporary directory.
generate(read_ok, rm_ok) ==
    /\ resp.status = 200 /\ resp.endpoint = "download" /\ resp.phase = "streaming"
    /\ IF read_ok /\ resp.chunks_left > 0
       THEN /\ resp' = [resp EXCEPT !.chunks_left = @ - 1,
                                    !.payload = Append(@, "chunk"),
                                    !.started = TRUE]
            /\ temp_dirs' = temp_dirs
       ELSE /\ resp' = [resp EXCEPT !.phase = "done", !.failed = ~read_ok,
                                    !.started = TRUE, !.cleaned = TRUE]
            /\ temp_dirs' = Rmtree(temp_dirs, resp.temp_dir, rm_ok)
    /\ UNCHANGED <<now, rate_limit_storage, files, retry, audit, threads>>

----------------------------------------------------------------------------
(* The environment *)

\* The response has been sent and the worker takes the next request.
\* The client has gone and the server closes the response, which closes the
\* generator: GeneratorExit is raised at the yield where a started generator is
\* suspended, so its finally clause runs; a generator whose first next() has
\* not been called has not entered the try statement, and no code of it runs.
close(rm_ok) ==
    /\ resp.status = 200 /\ resp.endpoint = "download" /\ resp.phase = "streaming"
    /\ IF resp.started
       THEN /\ resp' = [resp EXCEPT !.phase = "done", !.closed = TRUE,
                                    !.cleaned = TRUE]
            /\ temp_dirs' = Rmtree(temp_dirs, resp.temp_dir, rm_ok)
       ELSE /\ resp' = [resp EXCEPT !.phase = "done", !.closed = TRUE]
            /\ temp_dirs' = temp_dirs
    /\ UNCHANGED <<now, rate_limit_storage, files, retry, audit, threads>>

Deliver ==
    /\ resp # NoResp /\ resp.phase = "done"
    /\ resp' = NoResp
    /\ UNCHANGED <<now, rate_limit_storage, temp_dirs, files, retry, audit, threads>>

\* Time passes between two requests.
Tick ==
    /\ resp = NoResp
    /\ \E t \in TimePoints : t > now /\ now' = t
    /\ UNCHANGED <<rate_limit_storage, temp_dirs, resp, files, retry, audit, threads>>

InitServer ==
    /\ now = 0
    /\ rate_limit_storage = [ip \in IPs |-> <<>>]
    /\ temp_dirs = {}
    /\ resp = NoResp
    /\ files = <<>>

----------------------------------------------------------------------------
(* The downloads directory: src/app.py list_downloads, download_file,       *)
(* delete_file, clear_downloads.  A file name is a sequence of characters,  *)
(* a file's content the sequence of 4096-byte chunks f.read(4096) returns.  *)

HexDigits == {"0", "1", "2", "3", "4", "5", "6", "7", "8", "9",
              "a", "b", "c", "d", "e", "f", "A", "B", "C", "D", "E", "F"}

\* The character a percent-escape %h1h2 stands for.
HexByte(h1, h2) ==
    CASE <<h1, h2>> = <<"4", "1">> -> "A"
      [] <<h1, h2>> = <<"2", "5">> -> "%"
      [] OTHER -> h1 \o h2

RECURSIVE Unquote(_)
\* urllib.parse.unquote
Unquote(s) ==
    IF s = <<>> THEN <<>>
    ELSE IF Head(s) = "%" /\ Len(s) >= 3 /\ s[2] \in HexDigits /\ s[3] \in HexDigits
    THEN <<HexByte(s[2], s[3])>> \o Unquote(SubSeq(s, 4, Len(s)))
    ELSE <<Head(s)>> \o Unquote(Tail(s))

RECURSIVE Quote(_)
\* urllib.parse.quote, as a client applies it to put a name in a URL
Quote(s) ==
    IF s = <<>> THEN <<>>
    ELSE (IF Head(s) = "%" THEN <<"%", "2", "5">> ELSE <<Head(s)>>) \o Quote(Tail(s))

\* The <filename> a route hands its handler: the path segment, percent-decoded
\* once by the WSGI layer.
Routed(segment) == Unquote(segment)

\* decoded_filename = urllib.parse.unquote(filename)
DecodedFilename(filename) == Unquote(filename)

Names == { <<"A">>, <<"b">>, <<"%">>, <<"%", "4", "1">>,
           <<"%", "2", "5", "4", "1">> }

Contents == { <<"x">>, <<"y", "z">> }

\* os.path.exists(os.path.join(DOWNLOADS_DIR, name))
Exists(name) == \E i \in 1..Len(files) : files[i].name = name

Entry(name) == files[CHOOSE i \in 1..Len(files) : files[i].name = name]

RECURSIVE Without(_, _)
Without(fs, gone) ==
    IF fs = <<>> THEN <<>>
    ELSE (IF gone[Head(fs).name] THEN <<>> ELSE <<Head(fs)>>) \o Without(Tail(fs), gone)

RECURSIVE ReadAll(_)
\* while True: data = f.read(4096); if not data: break; yield data
ReadAll(content) ==
    IF content = <<>> THEN <<>> ELSE <<Head(content)>> \o ReadAll(Tail(content))

RECURSIVE Stat(_)
\* the regular files of the directory, as {filename, size, modified}
Stat(fs) ==
    IF fs = <<>> THEN <<>>
    ELSE (IF Head(fs).kind = "file"
          THEN <<[filename |-> Head(fs).name, size |-> Len(Head(fs).content),
                  modified |-> Head(fs).mtime]>>
          ELSE <<>>) \o Stat(Tail(fs))

\* Before for an ascending sort (reverse=True forgotten)
BeforeAscending(x, y) == x.modified <= y.modified

\* sort(key=modified, reverse=True) puts x before y
Before(x, y) == x.modified >= y.modified

RECURSIVE InsertSorted(_, _)
InsertSorted(x, sorted) ==
    IF sorted = <<>> \/ Before(x, Head(sorted))
    THEN <<x>> \o sorted
    ELSE <<Head(sorted)>> \o InsertSorted(x, Tail(sorted))

RECURSIVE SortNewestFirst(_)
\* files.sort(key=lambda x: x['modified'], reverse=True): a stable sort
SortNewestFirst(s) ==
    IF s = <<>> THEN <<>> ELSE InsertSorted(Head(s), SortNewestFirst(Tail(s)))

\* files[:20]
Listed(sorted) == Slice(sorted, LIST_CUT)

FileResponse(endpoint, method, name, status, payload) ==
    [status |-> status, endpoint |-> endpoint, method |-> method, name |-> name,
     payload |-> payload, phase |-> "done"]

\* GET /api/downloads
list_downloads ==
    /\ resp = NoResp
    /\ LET all == SortNewestFirst(Stat(files))
       IN resp' = FileResponse("downloads", "GET", <<>>, 200,
                               [files |-> Listed(all), total_count |-> Len(all)])
    /\ UNCHANGED <<now, rate_limit_storage, temp_dirs, files, retry, audit, threads>>

\* GET /api/download-file/<filename>, asked for the file called `name`
download_file(name) ==
    LET filename == Routed(Quote(name))
        decoded_filename == DecodedFilename(filename)
    IN /\ resp = NoResp
       /\ resp' = IF ~Exists(decoded_filename)
                  THEN FileResponse("download-file", "GET", name, 404, "error")
                  ELSE IF Entry(decoded_filename).kind # "file"
                  THEN FileResponse("download-file", "GET", name, 200, "broken")
                  ELSE FileResponse("download-file", "GET", name, 200,
                                    ReadAll(Entry(decoded_filename).content))
       /\ UNCHANGED <<now, rate_limit_storage, temp_dirs, files, retry, audit, threads>>

\* DELETE/OPTIONS /api/delete-file/<filename>, asked for the file called `name`
delete_file(method, name) ==
    LET filename == Routed(Quote(name))
        R(status, payload) == FileResponse("delete-file", method, name, status, payload)
        removes == method = "DELETE" /\ Exists(filename)
                   /\ Entry(filename).kind = "file"
    IN /\ resp = NoResp
       /\ resp' = IF method = "OPTIONS" THEN R(200, "")
                  ELSE IF ~Exists(filename) THEN R(404, "error")
                  ELSE IF Entry(filename).kind # "file" THEN R(500, "error")
                  ELSE R(200, "success")
       /\ files' = IF removes
                   THEN Without(files, [n \in {files[i].name : i \in 1..Len(files)}
                                          |-> n = filename])
                   ELSE files
       /\ UNCHANGED <<now, rate_limit_storage, temp_dirs, retry, audit, threads>>

\* POST/OPTIONS /api/clear-downloads
clear_downloads(method) ==
    /\ resp = NoResp
    /\ resp' = FileResponse("clear-downloads", method, <<>>, 200,
                            IF method = "OPTIONS" THEN "" ELSE "success")
    /\ files' = IF method = "OPTIONS" THEN files
                ELSE Without(files, [n \in {files[i].name : i \in 1..Len(files)}
                                       |-> Entry(n).kind = "file"])
    /\ UNCHANGED <<now, rate_limit_storage, temp_dirs, retry, audit, threads>>

\* Something stores a file in DOWNLOADS_DIR.
PersistFile(name, content, mtime) ==
    /\ resp = NoResp
    /\ Len(files) < MaxStored
    /\ ~Exists(name)
    /\ files' = Append(files, [name |-> name, kind |-> "file",
                               content |-> content, mtime |-> mtime])
    /\ UNCHANGED <<now, rate_limit_storage, temp_dirs, resp, retry, audit, threads>>

\* A directory of n entries: the i-th is called f..f (i times), was modified at
\* (a*i + b) mod MtimeMod and, with d = 1, every third entry is a subdirectory.
Directory(n, a, b, d) ==
    [i \in 1..n |-> [name |-> [j \in 1..i |-> "f"],
                     kind |-> IF d = 1 /\ i % 3 = 0 THEN "dir" ELSE "file",
                     content |-> <<"x">>,
                     mtime |-> (a * i + b) % MtimeMod]]

\* A metadata result: a description of n characters (or none) and formats.
Info(has, n, fmts) ==
    [has_description |-> has, description |-> Text(n), formats |-> fmts]

VideoInfoRequests(ips, methods, bodies, failureSet, infos) ==
    \E ip \in ips, method \in methods, body \in bodies,
       failures \in failureSet, info \in infos :
        get_video_info(ip, method, body, failures, info)

DownloadRequests(ips, methods, bodies, outcomes, chunkSet) ==
    \E ip \in ips, method \in methods, body \in bodies,
       outcome \in outcomes, chunks \in chunkSet :
        download_video(ip, method, body, outcome, chunks)

Streams(reads, rms) == \E read_ok \in reads, rm_ok \in rms : generate(read_ok, rm_ok)

Init == InitServer /\ retry = RetryIdle /\ audit = <<>> /\ threads = <<>>

(* The limiter under every mix of clients, endpoints and methods; the bodies  *)
(* are well-formed and the library works, which the limiter never looks at.   *)
Next ==
    \/ VideoInfoRequests(IPs, Methods, {"url"}, {0},
                         {Info(TRUE, 1, Formats(1, 0, 0))})
    \/ DownloadRequests(IPs, Methods, {"url"}, {"ok"}, {0})
    \/ Streams({TRUE}, {TRUE})
    \/ Deliver
    \/ Tick

Spec == Init /\ [][Next]_vars

(* The handlers under every request body and every result of the library and  *)
(* the file system, for one client.                                           *)
NextHandlers ==
    \/ VideoInfoRequests({"ip1"}, Methods, Bodies, {0, 1, INFO_MAX_RETRIES},
                         {Info(FALSE, 0, <<>>), Info(TRUE, 1, Formats(2, 1, 0))})
    \/ DownloadRequests({"ip1"}, Methods, Bodies, Outcomes, 0..MaxChunks)
    \/ Streams(BOOLEAN, BOOLEAN)
    \/ Deliver
    \/ Tick

SpecHandlers == Init /\ [][NextHandlers]_vars

(* One watched client on both endpoints.                                     *)
InitEndpoints ==
    /\ InitServer /\ retry = RetryIdle /\ threads = <<>>
    /\ audit = [ip \in {"ip1"} |-> <<>>]

NextEndpoints ==
    \/ VideoInfoRequests({"ip1"}, Methods, {"url"}, {0},
                         {Info(TRUE, 1, Formats(1, 0, 0))})
    \/ DownloadRequests({"ip1"}, Methods, {"url"}, {"ok"}, {0})
    \/ Streams({TRUE}, {TRUE})
    \/ Deliver
    \/ Tick

SpecEndpoints == InitEndpoints /\ [][NextEndpoints]_vars

(* The shaping of metadata results of every size.                             *)
Infos ==
    { Info(has, n, Formats(k, a, b)) :
        has \in BOOLEAN,
        n \in {0, DESCRIPTION_CUT - 1, DESCRIPTION_CUT, DESCRIPTION_CUT + 1,
               DESCRIPTION_CUT + MaxExtra},
        k \in {0, 1, AUDIO_STREAMS_CUT, VIDEO_STREAMS_CUT, MaxFormats},
        a \in 0..1, b \in 0..4 }

NextInfo ==
    \/ VideoInfoRequests({"ip1"}, {"POST"}, {"url"}, {0}, Infos)
    \/ Deliver
    \/ Tick

SpecInfo == Init /\ [][NextInfo]_vars

(* Files stored, listed, fetched and deleted by name.                         *)
NextFiles ==
    \/ \E name \in Names, content \in Contents, mtime \in 1..2 :
         PersistFile(name, content, mtime)
    \/ list_downloads
    \/ \E name \in Names : download_file(name)
    \/ \E method \in {"DELETE", "OPTIONS"}, name \in Names : delete_file(method, name)
    \/ \E method \in {"POST", "OPTIONS"} : clear_downloads(method)
    \/ Deliver

SpecFiles == Init /\ [][NextFiles]_vars

(* The listing of directories of every size.                                  *)
InitList ==
    /\ now = 0
    /\ rate_limit_storage = [ip \in IPs |-> <<>>]
    /\ temp_dirs = {}
    /\ resp = NoResp
    /\ retry = RetryIdle
    /\ audit = <<>>
    /\ threads = <<>>
    /\ files \in { Directory(n, a, b, d) :
                     n \in 0..MaxFiles, a \in 0..(MtimeMod - 1),
                     b \in 0..1, d \in 0..1 }

NextList == list_downloads \/ Deliver

SpecList == InitList /\ [][NextList]_vars

----------------------------------------------------------------------------
(* Properties of the limiter *)

Limited == resp # NoResp /\ resp.endpoint \in {"video-info", "download"}

Limit(endpoint) == IF endpoint = "download" THEN DOWNLOAD_LIMIT ELSE VIDEO_INFO_LIMIT

\* The timestamps of a window that are at most, or exactly up to, `age` old.
Younger(window, age) == {i \in 1..Len(window) : now - window[i] < age}
UpTo(window, age) == {i \in 1..Len(window) : now - window[i] <= age}

\* C1 as stated: with L requests admitted less than 60 seconds ago the next
\* request is rejected with 429, and a request that comes when 60 seconds or
\* more have passed since every admitted request of the client is admitted.
C1_AsStated ==
    Limited =>
        /\ Cardinality(Younger(resp.window, WINDOW)) >= Limit(resp.endpoint)
              => resp.status = 429
        /\ Younger(resp.window, WINDOW) = {} => resp.status # 429

\* C1, amended: with L requests admitted at most 60 seconds ago (one admitted
\* exactly 60 seconds ago still counts) the next request is rejected with 429,
\* and a request that comes when more than 60 seconds have passed since every
\* admitted request of the client is admitted.
C1_SlidingWindow ==
    Limited =>
        /\ Cardinality(UpTo(resp.window, WINDOW)) >= Limit(resp.endpoint)
              => resp.status = 429
        /\ UpTo(resp.window, WINDOW) = {} => resp.status # 429

\* A client whose window was full of requests more than 60 seconds old is
\* admitted again.
C1_Witness ==
    /\ Limited /\ resp.status = 200 /\ resp.method = "POST"
    /\ Len(resp.window) >= Limit(resp.endpoint)
    /\ UpTo(resp.window, WINDOW) = {}

\* C5: a preflight (OPTIONS) request is answered with an empty body and status
\* 200, whatever the state of the limiter; never with 429.
C5_PreflightAlways200 ==
    (Limited /\ resp.method = "OPTIONS") => (resp.status = 200 /\ resp.payload = "")

\* The requests of the watched client admitted to `endpoint` at most WINDOW
\* seconds ago, before the request being answered.
AdmittedBefore(ip, endpoint) ==
    LET log == audit[ip]
        mine == IF resp.status = 429 THEN 0 ELSE 1
    IN Cardinality({i \in 1..Len(log) :
                      log[i].endpoint = endpoint /\ now - log[i].at <= WINDOW}) - mine

\* C6: the limits are per endpoint: a client admitted fewer than 3 times to
\* /api/download in the trailing 60 seconds is admitted to /api/download, and
\* one admitted fewer than 5 times to /api/video-info is admitted to
\* /api/video-info, whatever it asked of the other endpoint.
C6_PerEndpoint ==
    (Limited /\ resp.method = "POST" /\ resp.ip \in DOMAIN audit
       /\ AdmittedBefore(resp.ip, resp.endpoint) < Limit(resp.endpoint))
    => resp.status # 429

----------------------------------------------------------------------------
(* Properties of the handlers *)

\* C4: a POST to /api/video-info or /api/download without a usable url (no
\* JSON body, no url field, an empty url) that passes the limiter is answered
\* with 400 and an error payload; the library is not called and no temporary
\* directory is made.
C4_MissingUrl400 ==
    (Limited /\ resp.method = "POST" /\ resp.status # 429
       /\ resp.body \in {"no_body", "no_url", "empty_url"})
    => /\ resp.status = 400 /\ resp.payload = "error"
       /\ resp.extractions = 0 /\ resp.temp_dir = 0

\* C2: when a POST /api/download request is complete, on every path, the
\* temporary directory mkdtemp made for it no longer exists.
C2_TempDirRemoved ==
    (Limited /\ resp.endpoint = "download" /\ resp.phase = "done"
       /\ resp.temp_dir # 0)
    => resp.temp_dir \notin temp_dirs

----------------------------------------------------------------------------
(* Properties of retry_with_backoff *)

RetryDone == retry.pc = "done"

\* C3: an operation that fails k < max_retries times and then succeeds makes
\* the wrapper return that success value; one that fails max_retries times in
\* a row makes it raise the error of the max_retries-th attempt, unchanged,
\* without another call of the operation.
C3_RetryOutcome ==
    RetryDone =>
        LET r == retry.result
            m == retry.max_retries
            k == retry.failures
        IN /\ k < m => /\ r.outcome = "return"
                       /\ r.what = <<"value", k + 1>>
                       /\ r.calls = k + 1
           /\ (m >= 1 /\ k >= m) => /\ r.outcome = "raise"
                                    /\ r.what = <<"error", m>>
                                    /\ r.calls = m

\* The wrapper of get_video_info's size gave up after its last attempt.
C3_Witness ==
    /\ RetryDone
    /\ retry.max_retries = INFO_MAX_RETRIES
    /\ retry.failures >= retry.max_retries
    /\ retry.result.outcome = "raise"
    /\ retry.result.calls = INFO_MAX_RETRIES

NonDecreasing(delays) ==
    \A n \in 1..(Len(delays) - 1) : delays[n] <= delays[n + 1]

\* C9 as stated: within one run no delay is shorter than the one before it,
\* for every base_delay >= 0 and every jitter in [0, 1].
C9_AsStated == RetryDone => NonDecreasing(retry.result.delays)

\* C9, amended: within one run no delay is shorter than the one before it,
\* for every base_delay of at least one second and every jitter in [0, 1].
C9_NonDecreasingFromOneSecond ==
    (RetryDone /\ retry.base_delay >= JitterScale)
    => NonDecreasing(retry.result.delays)

\* Two delays of one run with a base_delay of one second or more, the first
\* with the largest jitter, the second with none.
C9_Witness ==
    /\ RetryDone /\ retry.base_delay >= JitterScale
    /\ Len(retry.result.delays) >= 2
    /\ retry.result.delays[1] = retry.base_delay + JitterScale
    /\ retry.result.delays[2] = 2 * retry.base_delay

----------------------------------------------------------------------------
(* Properties of the downloads directory *)

IsListing == resp # NoResp /\ resp.endpoint = "downloads"

RegularFiles == {i \in 1..Len(files) : files[i].kind = "file"}

Min(a, b) == IF a < b THEN a ELSE b

\* The listing holds the most recently modified regular files: as many as the
\* cut allows, each a regular file of the directory with its modification
\* time, no file twice, and no file left out is newer than a file listed.
MostRecent(listing) ==
    LET shown == {listing[n].filename : n \in 1..Len(listing)}
    IN /\ Len(listing) = Min(LIST_CUT, Cardinality(RegularFiles))
       /\ Cardinality(shown) = Len(listing)
       /\ \A n \in 1..Len(listing) :
            \E i \in RegularFiles : /\ files[i].name = listing[n].filename
                                    /\ files[i].mtime = listing[n].modified
       /\ \A i \in RegularFiles :
            files[i].name \notin shown
               => \A n \in 1..Len(listing) : files[i].mtime <= listing[n].modified

\* C7 as stated: GET /api/downloads returns at most 20 entries, each modified
\* strictly later than the entry after it, and they are the 20 most recently
\* modified regular files.
C7_AsStated ==
    IsListing =>
        LET listing == resp.payload.files
        IN /\ Len(listing) <= LIST_CUT
           /\ \A n \in 1..(Len(listing) - 1) :
                listing[n].modified > listing[n + 1].modified
           /\ MostRecent(listing)

\* C7, amended: GET /api/downloads returns at most 20 entries, each modified
\* no earlier than the entry after it (files modified at the same time follow
\* one another), and they are 20 most recently modified regular files.
C7_NewestFirstCapped ==
    IsListing =>
        LET listing == resp.payload.files
        IN /\ Len(listing) <= LIST_CUT
           /\ \A n \in 1..(Len(listing) - 1) :
                listing[n].modified >= listing[n + 1].modified
           /\ MostRecent(listing)

\* A listing cut at 20 entries of a directory with more regular files, some
\* of them modified at the same time.
C7_Witness ==
    /\ IsListing
    /\ Len(resp.payload.files) = LIST_CUT
    /\ resp.payload.total_count > LIST_CUT
    /\ \E n \in 1..(LIST_CUT - 1) :
         resp.payload.files[n].modified = resp.payload.files[n + 1].modified
    /\ \E n \in 1..(LIST_CUT - 1) :
         resp.payload.files[n].modified > resp.payload.files[n + 1].modified

ListedNames ==
    LET listing == Listed(SortNewestFirst(Stat(files)))
    IN {listing[n].filename : n \in 1..Len(listing)}

\* C8: a regular file whose name GET /api/downloads returns is served
\* unchanged by GET /api/download-file/<name> under that name, whatever the
\* name (percent-escapes included); and once DELETE /api/delete-file/<name>
\* has answered 200 the file is no longer listed.
C8_RoundTrip ==
    /\ (resp # NoResp /\ resp.endpoint = "download-file"
          /\ resp.name \in ListedNames)
       => /\ resp.status = 200
          /\ resp.payload = Entry(resp.name).content
    /\ (resp # NoResp /\ resp.endpoint = "delete-file" /\ resp.method = "DELETE"
          /\ resp.status = 200)
       => resp.name \notin ListedNames

----------------------------------------------------------------------------
(* Properties of the /api/video-info response *)

IsVideoInfo ==
    Limited /\ resp.endpoint = "video-info" /\ resp.method = "POST"
            /\ resp.status = 200

\* C10 as stated: the description of the response is never longer than 500
\* characters, video_streams has at most 15 entries and audio_streams at most 8.
C10_AsStated ==
    IsVideoInfo =>
        /\ Len(resp.payload.description) <= DESCRIPTION_CUT
        /\ Len(resp.payload.video_streams) <= VIDEO_STREAMS_CUT
        /\ Len(resp.payload.audio_streams) <= AUDIO_STREAMS_CUT

\* C10, amended: the description of the response is never longer than 503
\* characters (500 of the original and '...'), video_streams has at most 15
\* entries and audio_streams at most 8.
C10_ResponseCapped ==
    IsVideoInfo =>
        /\ Len(resp.payload.description) <= DESCRIPTION_CUT + Len(Ellipsis)
        /\ Len(resp.payload.description) > DESCRIPTION_CUT
              => /\ Len(resp.payload.description) = DESCRIPTION_CUT + Len(Ellipsis)
                 /\ SubSeq(resp.payload.description, DESCRIPTION_CUT + 1,
                           DESCRIPTION_CUT + Len(Ellipsis)) = Ellipsis
        /\ Len(resp.payload.video_streams) <= VIDEO_STREAMS_CUT
        /\ Len(resp.payload.audio_streams) <= AUDIO_STREAMS_CUT

\* A response whose description was cut and whose video streams were capped.
C10_Witness ==
    /\ IsVideoInfo
    /\ Len(resp.payload.description) = DESCRIPTION_CUT + Len(Ellipsis)
    /\ Len(resp.payload.video_streams) = VIDEO_STREAMS_CUT


----------------------------------------------------------------------------
(* Concurrent requests: src/app.py rate_limit.decorated_function, statement   *)
(* by statement.  app.run serves every request in a thread of its own, and    *)
(* nothing in decorated_function takes a lock, so the threads interleave      *)
(* between any two operations on the shared deque.                            *)

MaxThreads == 2

Threads == 1..MaxThreads

Idle == [pc |-> "idle", ip |-> None, now |-> 0, status |-> 0]

Goto(t, pc) == [threads EXCEPT ![t].pc = pc]

Answer(t, status) == [threads EXCEPT ![t].pc = "done", ![t].status = status]

\* client_ip = request.remote_addr; now = time.time(); minute_ago = now - 60
Accept(t, ip) ==
    /\ threads[t].pc = "idle"
    /\ threads' = [threads EXCEPT ![t] = [pc |-> "while", ip |-> ip,
                                          now |-> now, status |-> 0]]
    /\ UNCHANGED <<now, rate_limit_storage, temp_dirs, resp, files, retry, audit>>

\* while rate_limit_storage[client_ip] and ...: the left operand
WhileNonEmpty(t) ==
    /\ threads[t].pc = "while"
    /\ threads' = Goto(t, IF rate_limit_storage[threads[t].ip] # <<>>
                          THEN "head" ELSE "len")
    /\ UNCHANGED <<now, rate_limit_storage, temp_dirs, resp, files, retry, audit>>

\* ... rate_limit_storage[client_ip][0] < minute_ago: the right operand, an
\* IndexError (answered 500) when another thread has emptied the deque
WhileHead(t) ==
    LET q == rate_limit_storage[threads[t].ip]
    IN /\ threads[t].pc = "head"
       /\ threads' = IF q = <<>> THEN Answer(t, 500)
                     ELSE IF Head(q) < threads[t].now - WINDOW
                          THEN Goto(t, "popleft")
                          ELSE Goto(t, "len")
       /\ UNCHANGED <<now, rate_limit_storage, temp_dirs, resp, files, retry, audit>>

\* rate_limit_storage[client_ip].popleft(), an IndexError on an empty deque
Popleft(t) ==
    LET ip == threads[t].ip
        q == rate_limit_storage[ip]
    IN /\ threads[t].pc = "popleft"
       /\ IF q = <<>>
          THEN /\ threads' = Answer(t, 500)
               /\ rate_limit_storage' = rate_limit_storage
          ELSE /\ threads' = Goto(t, "while")
               /\ rate_limit_storage' = [rate_limit_storage EXCEPT ![ip] = Tail(q)]
       /\ UNCHANGED <<now, temp_dirs, resp, files, retry, audit>>

\* if len(rate_limit_storage[client_ip]) >= limit: return ..., 429
LenCheck(t, limit) ==
    /\ threads[t].pc = "len"
    /\ threads' = IF Exceeded(rate_limit_storage[threads[t].ip], limit)
                  THEN Answer(t, 429)
                  ELSE Goto(t, "append")
    /\ UNCHANGED <<now, rate_limit_storage, temp_dirs, resp, files, retry, audit>>

\* rate_limit_storage[client_ip].append(now)
AppendNow(t) ==
    LET ip == threads[t].ip
    IN /\ threads[t].pc = "append"
       /\ threads' = Goto(t, "call")
       /\ rate_limit_storage' =
            [rate_limit_storage EXCEPT ![ip] = Append(@, threads[t].now)]
       /\ UNCHANGED <<now, temp_dirs, resp, files, retry, audit>>

\* return f(*args, **kwargs), f being get_video_info
CallHandler(t, method, body, failures, info) ==
    /\ threads[t].pc = "call"
    /\ \E jitters \in {[a \in 0..MaxRetries |-> j] : j \in 0..JitterScale} :
         threads' = Answer(t, VideoInfoView(threads[t].ip, method, body,
                                            failures, info, jitters).status)
    /\ UNCHANGED <<now, rate_limit_storage, temp_dirs, resp, files, retry, audit>>

\* the response is sent and the thread ends
Respond(t) ==
    /\ threads[t].pc = "done"
    /\ threads' = [threads EXCEPT ![t] = Idle]
    /\ UNCHANGED <<now, rate_limit_storage, temp_dirs, resp, files, retry, audit>>

InitThreads ==
    /\ InitServer /\ retry = RetryIdle /\ audit = <<>>
    /\ threads = [t \in Threads |-> Idle]

(* One client's POSTs to /api/video-info, each in a thread of its own.        *)
NextThreads ==
    \/ \E t \in Threads : Accept(t, "ip1")
    \/ \E t \in Threads : WhileNonEmpty(t)
    \/ \E t \in Threads : WhileHead(t)
    \/ \E t \in Threads : Popleft(t)
    \/ \E t \in Threads : LenCheck(t, VIDEO_INFO_LIMIT)
    \/ \E t \in Threads : AppendNow(t)
    \/ \E t \in Threads :
         CallHandler(t, "POST", "url", 0, Info(TRUE, 1, Formats(1, 0, 0)))
    \/ \E t \in Threads : Respond(t)
    \/ Tick

SpecThreads == InitThreads /\ [][NextThreads]_vars

\* The timestamps of q that lie in the WINDOW seconds starting at `from`.
InSpan(q, from) == {i \in 1..Len(q) : from <= q[i] /\ q[i] < from + WINDOW}

\* C11: while one client's requests are handled concurrently, the client's
\* window never holds more than `limit` timestamps, and no more than `limit`
\* of its admitted timestamps lie inside any span of 60 seconds.
C11_WindowWithinLimit ==
    \A ip \in IPs :
        LET q == rate_limit_storage[ip]
        IN /\ Len(q) <= VIDEO_INFO_LIMIT
           /\ \A from \in TimePoints :
                Cardinality(InSpan(q, from)) <= VIDEO_INFO_LIMIT


----------------------------------------------------------------------------
(* Streaming a download to a client that may go away at any moment.           *)

Disconnects(rms) == \E rm_ok \in rms : close(rm_ok)

NextStreaming ==
    \/ DownloadRequests({"ip1"}, {"POST"}, {"url"}, {"ok"}, 0..MaxChunks)
    \/ Streams(BOOLEAN, BOOLEAN)
    \/ Disconnects(BOOLEAN)
    \/ Deliver
    \/ Tick

SpecStreaming == Init /\ [][NextStreaming]_vars

\* C12: when the client of a built streaming response of /api/download has
\* disconnected -- before the first chunk was read from the generator, between
\* two chunks or after the last one -- rmtree of the request's temporary
\* directory has run by the time the handler is released.
C12_CleanupOnDisconnect ==
    (resp.status = 200 /\ resp.temp_dir # 0 /\ resp.phase = "done" /\ resp.closed)
    => resp.cleaned


----------------------------------------------------------------------------
(* The frame of a rejected call *)

\* The timestamps of q that are not older than WINDOW seconds, in their order.
NotOlder(q) == SelectSeq(q, LAMBDA stamp : stamp >= now - WINDOW)

\* A step in which a request is answered with 429.
Rejects == resp = NoResp /\ resp' # NoResp /\ resp'.status = 429

\* C13: a call rejected with 429 leaves in the client's window exactly the
\* timestamps that are not older than 60 seconds, adds none, changes no other
\* client's window and does not run the wrapped handler (no call of the
\* library, no temporary directory); the client's capacity is therefore
\* restored no later than without the rejected call.
C13_RejectedFrame ==
    [][Rejects =>
         /\ rate_limit_storage'[resp'.ip] = NotOlder(rate_limit_storage[resp'.ip])
         /\ \A other \in IPs \ {resp'.ip} :
              rate_limit_storage'[other] = rate_limit_storage[other]
         /\ resp'.extractions = 0 /\ resp'.temp_dir = 0 /\ resp'.phase = "done"
         /\ temp_dirs' = temp_dirs /\ files' = files]_vars

\* A rejected call found timestamps older than 60 seconds in the window and
\* pruned them, while another client had a window of its own.
C13_Witness ==
    /\ Limited /\ resp.status = 429
    /\ \E i \in 1..Len(resp.window) : resp.window[i] < now - WINDOW
    /\ Len(rate_limit_storage[resp.ip]) < Len(resp.window)
    /\ \E other \in IPs \ {resp.ip} : rate_limit_storage[other] # <<>>

====
